---- MODULE Spec2Model ----
(***************************************************************************)
(* State-machine model of maco-strategy-app, the ingestion pipeline        *)
(*   app/ingestion/yahoo_backfill.py   fetch_yahoo_prices, run             *)
(*   app/ingestion/finnhub_snapshot.py fetch_snapshot, fetch_yahoo_fallback,*)
(*                                     write_raw_json, run                 *)
(* and the feature and signal engine                                       *)
(*   app/transforms/maco.py            compute_sma, compute_maco_features, *)
(*                                     generate_signals                    *)
(*   app/jobs/compute_maco.py          write_next_day_prediction, main     *)
(* Vendor responses, sink outcomes and the retry jitter are the inputs;    *)
(* they are drawn from bounded sets.  A row of a parsed frame keeps        *)
(* trade_date, close and volume, a price bar symbol, trade_date, provider  *)
(* and close; open/high/low/adj_close go through the same code as close.   *)
(***************************************************************************)
EXTENDS Integers, Sequences, FiniteSets, TLC

----------------------------------------------------------------------------
(* Bounds of the model *)

MaxSymbols == 2
MaxBars == 2
MaxTs == 2
JitterSteps == 2
MaxPriceRows == 3
MaxFeatureRows == 2
MaxWindow == 2
MaxSeries == 4

(* Program constants *)

max_retries == 6
base_sleep == 10
max_sleep == 120

\* Python None, and the NaN pandas puts in place of None in a numeric column
None == 0
NaN == 0 - 1

\* length of one UTC day in timestamp units (86400 s, scaled)
DayLen == 2

----------------------------------------------------------------------------
(* Helpers *)

Min(a, b) == IF a <= b THEN a ELSE b

RECURSIVE Pow2(_)
Pow2(k) == IF k = 0 THEN 1 ELSE 2 * Pow2(k - 1)

SeqsOf(S, lo, hi) == UNION {[1..n -> S] : n \in lo..hi}

Last(s) == s[Len(s)]

\* arr[idx] if idx < len(arr) else None      (1-based here)
At(arr, i) == IF i <= Len(arr) THEN arr[i] ELSE None

Missing(x) == x \in {None, NaN}

----------------------------------------------------------------------------
(* Input domains *)

SymbolSet == {"AAPL", "TSLA"}
SymbolLists == SeqsOf(SymbolSet, 1, MaxSymbols)

Timestamps == 0..MaxTs
\* what a vendor array may hold: null or a number
Closes == {None, 150}
Volumes == {None, 1000}
Jitters == {(base_sleep * j) \div JitterSteps : j \in 0..JitterSteps}

\* datetime.utcfromtimestamp(ts).date()
DateOf(ts) == ts \div DayLen

\* date.today() / the previous UTC day of prev_day_range()
Today == DateOf(MaxTs)
PrevDay == Today - 1

\* An exception (or its absence): class name and, for HTTPError, the status
Exc(cls, status) == [cls |-> cls, status |-> status]
NoExc == Exc("none", 0)

\* A response of the Yahoo chart endpoint.  status 0: no response (timeout).
YahooResponse(status, json, result, t, c, v) ==
    [status |-> status, json |-> json, result |-> result,
     timestamp |-> t, close |-> c, volume |-> v]

YahooResponses ==
    {YahooResponse(s, FALSE, FALSE, <<>>, <<>>, <<>>) : s \in {0, 200, 403, 404, 429, 500}}
    \cup {YahooResponse(200, TRUE, FALSE, <<>>, <<>>, <<>>)}
    \cup UNION {
           {YahooResponse(200, TRUE, TRUE, t, c, v) :
                c \in SeqsOf(Closes, 0, Len(t)), v \in SeqsOf(Volumes, 0, Len(t))}
           : t \in SeqsOf(Timestamps, 0, MaxBars)}

\* A response of the Finnhub candle endpoint.
FinnhubResponse(status, s, t, c) == [status |-> status, s |-> s, t |-> t, c |-> c]

FinnhubResponses ==
    {FinnhubResponse(s, "no_data", <<>>, <<>>) : s \in {0, 404, 429, 500}}
    \cup UNION {
           {FinnhubResponse(200, s, t, c) :
                s \in {"ok", "no_data"}, c \in SeqsOf(Closes, 0, Len(t))}
           : t \in SeqsOf(Timestamps, 0, MaxBars)}

----------------------------------------------------------------------------
(* fetch_yahoo_prices: one attempt *)

\* pd.DataFrame(records): a column in which every entry is None stays None,
\* a column mixing numbers and None becomes float64 with NaN for None
ColumnValue(records, field, i) ==
    IF \A j \in DOMAIN records : records[j][field] = None THEN None
    ELSE IF records[i][field] = None THEN NaN
    ELSE records[i][field]

ParseRecords(resp) ==
    [i \in 1..Len(resp.timestamp) |->
        [trade_date |-> DateOf(resp.timestamp[i]),
         close |-> At(resp.close, i),
         volume |-> At(resp.volume, i)]]

DataFrame(records) ==
    [i \in DOMAIN records |->
        [trade_date |-> records[i].trade_date,
         close |-> ColumnValue(records, "close", i),
         volume |-> ColumnValue(records, "volume", i)]]

EmptyFrame == << >>

\* a try body that asks for timestamps only
AttemptUnguarded(resp) ==
    IF resp.status = 0 THEN [exc |-> Exc("Timeout", 0), df |-> EmptyFrame]
    ELSE IF resp.status >= 400 THEN [exc |-> Exc("HTTPError", resp.status), df |-> EmptyFrame]
    ELSE IF ~resp.json THEN [exc |-> Exc("JSONDecodeError", 0), df |-> EmptyFrame]
    ELSE IF ~resp.result THEN [exc |-> Exc("ValueError", 0), df |-> EmptyFrame]
    ELSE IF resp.timestamp = <<>> THEN [exc |-> Exc("ValueError", 0), df |-> EmptyFrame]
    ELSE [exc |-> NoExc, df |-> DataFrame(ParseRecords(resp))]

\* the try body: the exception it raises (NoExc if none) and the frame it returns
Attempt(resp) ==
    IF resp.status = 0 THEN [exc |-> Exc("Timeout", 0), df |-> EmptyFrame]
    ELSE IF resp.status = 429 THEN [exc |-> Exc("HTTPError", 429), df |-> EmptyFrame]
    ELSE IF resp.status >= 400 THEN [exc |-> Exc("HTTPError", resp.status), df |-> EmptyFrame]
    ELSE IF ~resp.json THEN [exc |-> Exc("JSONDecodeError", 0), df |-> EmptyFrame]
    ELSE IF ~resp.result THEN [exc |-> Exc("ValueError", 0), df |-> EmptyFrame]
    ELSE IF resp.timestamp = <<>> \/ resp.close = <<>>
         THEN [exc |-> Exc("ValueError", 0), df |-> EmptyFrame]
    ELSE [exc |-> NoExc, df |-> DataFrame(ParseRecords(resp))]

\* a handler that catches HTTP errors only
CaughtHTTPOnly(exc) == exc.cls = "HTTPError"

\* except Exception as exc
Caught(exc) == TRUE

\* a policy that also retries a 404
ShouldRetryNotFound(exc, k) ==
    IF exc.cls = "HTTPError"
    THEN IF exc.status >= 500 THEN TRUE
         ELSE IF exc.status # 429 THEN k < max_retries - 1
         ELSE TRUE
    ELSE TRUE

\* should_retry of the except block
ShouldRetry(exc, k) ==
    IF exc.cls = "HTTPError"
    THEN IF exc.status >= 500 THEN TRUE
         ELSE IF exc.status = 404 THEN FALSE
         ELSE IF exc.status # 429 THEN k < max_retries - 1
         ELSE TRUE
    ELSE TRUE

\* a retry decision that forgets the attempt cap
WillRetryUncapped(exc, k) == ShouldRetry(exc, k)

WillRetry(exc, k) == k < max_retries - 1 /\ ShouldRetry(exc, k)

\* a backoff whose jitter is added after the cap
TotalSleepUncapped(k, jitter) == Min(base_sleep * Pow2(k), max_sleep) + jitter

\* total_sleep of the except block
TotalSleep(k, jitter) ==
    LET sleep_time == Min(base_sleep * Pow2(k), max_sleep)
    IN  Min(sleep_time + jitter, max_sleep)

----------------------------------------------------------------------------
(* The snapshot adapters and the sinks *)

\* a normalized price bar, as it enters the batch
Bar(symbol, trade_date, provider, close) ==
    [symbol |-> symbol, trade_date |-> trade_date, provider |-> provider, close |-> close]

NoBar == Bar("", 0, "none", None)

\* fetch_snapshot: the exception it raises (NoExc if none) and the dict it
\* returns (NoBar for None)
FetchSnapshot(symbol, resp) ==
    IF resp.status = 0 THEN [exc |-> Exc("Timeout", 0), bar |-> NoBar]
    ELSE IF resp.status >= 400 THEN [exc |-> Exc("HTTPError", resp.status), bar |-> NoBar]
    ELSE IF resp.s # "ok" \/ resp.t = <<>> THEN [exc |-> NoExc, bar |-> NoBar]
    ELSE IF resp.c = <<>> THEN [exc |-> Exc("IndexError", 0), bar |-> NoBar]
    ELSE [exc |-> NoExc, bar |-> Bar(symbol, PrevDay, "finnhub", Last(resp.c))]

\* the primary is not configured: fetch_snapshot is not called
NotConfigured == [exc |-> NoExc, bar |-> NoBar]

\* a primary that retries up to the cap of the fallback
PrimaryAttemptsRetried == max_retries

\* fetch_snapshot sends one request: requests.get is called once, outside any loop
PrimaryAttempts == 1

\* a run that catches HTTP errors only
RunCatchesHTTPOnly(exc) == exc.cls = "HTTPError"

\* run: `except requests.HTTPError` and `except Exception` around fetch_snapshot
RunCatches(exc) == TRUE

\* a run that falls back whatever the primary returned
NeedsFallbackAlways(record) == TRUE

\* run: `if not record:`
NeedsFallback(record) == record = NoBar

\* the last row of the frame as the vendor sent it, without the sort
LatestRowsUnsorted(df) == {Len(df)}

\* df.sort_values("trade_date").iloc[-1]: a row of the greatest trade_date
\* (quicksort is not stable: among equal dates any row may come last)
LatestRows(df) ==
    {i \in DOMAIN df : \A j \in DOMAIN df : df[j].trade_date <= df[i].trade_date}

\* fetch_yahoo_fallback, from the chosen row on: float(close) keeps NaN,
\* int(volume) raises ValueError on NaN
FallbackRecord(symbol, row) ==
    IF row.volume = NaN THEN [exc |-> Exc("ValueError", 0), bar |-> NoBar]
    ELSE [exc |-> NoExc, bar |-> Bar(symbol, row.trade_date, "yahoo", row.close)]

\* build_partition_path
ObjectName(base_prefix, symbol, partition_date, filename) ==
    <<base_prefix, symbol, partition_date, filename>>

\* upload_bytes / upload_dataframe_as_parquet: the blob of that name is replaced
Upload(store, name, content) ==
    {b \in store : b.name # name} \cup {[name |-> name, content |-> content]}

\* an audit write that files every payload under the primary's prefix
WriteRawJsonOnePrefix(store, symbol, payload, provider) ==
    Upload(store, ObjectName("raw/finnhub", symbol, payload.trade_date, "candles.json"),
           payload)

\* write_raw_json
WriteRawJson(store, symbol, payload, provider) ==
    LET base_prefix == IF provider = "finnhub" THEN "raw/finnhub" ELSE "raw/yahoo_finance"
    IN  Upload(store, ObjectName(base_prefix, symbol, payload.trade_date, "candles.json"),
               payload)

\* the rows of a frame of fetch_yahoo_prices, as price bars
BarsOf(symbol, df) ==
    [i \in DOMAIN df |-> Bar(symbol, df[i].trade_date, "yahoo", df[i].close)]

\* write_raw_to_gcs, stopped after the first n rows
RECURSIVE WriteRawToGcs(_, _, _, _)
WriteRawToGcs(store, df, symbol, n) ==
    IF n = 0 THEN store
    ELSE Upload(WriteRawToGcs(store, df, symbol, n - 1),
                ObjectName("raw/yahoo_finance", symbol, df[n].trade_date, "candles.parquet"),
                BarsOf(symbol, df)[n])

----------------------------------------------------------------------------
(* The feature and signal engine: transforms/maco.py, jobs/compute_maco.py *)

(* A mean is kept as the sum and the number of the observations it is taken  *)
(* over, and two means are compared by cross-multiplication.  The closes of  *)
(* the model are small integers, whose sums and quotients a float64 holds or *)
(* rounds alike, so the comparisons below are those of the floats.  n = 0 is *)
(* NaN: every comparison with it is false.                                   *)
Mean(total, n) == [sum |-> total, n |-> n]
NaNMean == Mean(0, 0)

\* pd.isna
IsNa(x) == x.n = 0

\* a < b and a <= b on floats
Less(a, b) == ~IsNa(a) /\ ~IsNa(b) /\ a.sum * b.n < b.sum * a.n
LessEq(a, b) == ~IsNa(a) /\ ~IsNa(b) /\ a.sum * b.n <= b.sum * a.n

\* the order of the symbol strings
SymbolOrder(symbol) == CASE symbol = "AAPL" -> 1 [] symbol = "TSLA" -> 2

KeyLess(a, b) ==
    \/ SymbolOrder(a.symbol) < SymbolOrder(b.symbol)
    \/ a.symbol = b.symbol /\ a.trade_date < b.trade_date

\* df.sort_values(["symbol", "trade_date"]).reset_index(drop=True): a sort on
\* several columns is a stable one, rows of equal key keep their input order
sort_values(df) ==
    LET n == Len(df)
        rank(i) == 1 + Cardinality({j \in 1..n :
                         \/ KeyLess(df[j], df[i])
                         \/ ~KeyLess(df[i], df[j]) /\ j < i})
    IN  [r \in 1..n |-> df[CHOOSE i \in 1..n : rank(i) = r]]

\* the symbols of a frame: the groups of df.groupby("symbol")
Groups(df) == {df[i].symbol : i \in DOMAIN df}

\* in a sorted frame, the rows of row i's group up to row i
GroupRows(df, i) == {j \in 1..i : df[j].symbol = df[i].symbol}

\* rolling(window=window, min_periods=1): the last `window` rows of the group
\* up to row i, fewer at the start of the group
Window(df, i, window) ==
    {j \in GroupRows(df, i) : Cardinality({k \in GroupRows(df, i) : k > j}) < window}

RECURSIVE SumClose(_, _)
SumClose(df, rows) ==
    IF rows = {} THEN 0
    ELSE LET j == CHOOSE k \in rows : TRUE
         IN  df[j].close + SumClose(df, rows \ {j})

\* compute_sma, at row i of its group: the mean of the closes of the window that
\* are not NaN, NaN if there is none
compute_sma(df, i, window) ==
    LET obs == {j \in Window(df, i, window) : df[j].close # NaN}
    IN  Mean(SumClose(df, obs), Cardinality(obs))

\* df.groupby("symbol", group_keys=False).apply(lambda g: compute_sma(g, window)).
\* apply gets one Series per group.  With several groups the Series have
\* different indexes and are concatenated into one Series over the rows of df.
\* With one group all (one) indexes are the same and apply stacks the Series
\* into a frame of one row, labelled by the symbol, and one column per row of df.
groupby_apply(df, window) ==
    IF Cardinality(Groups(df)) = 1
    THEN [kind |-> "frame", columns |-> Len(df),
          values |-> [i \in DOMAIN df |-> compute_sma(df, i, window)]]
    ELSE [kind |-> "series", columns |-> 1,
          values |-> [i \in DOMAIN df |-> compute_sma(df, i, window)]]

\* df[col] = value.  A Series is aligned on the index of df.  A frame of several
\* columns cannot be set to one column: ValueError.  A frame of one column is
\* aligned on the index of df too, and its one row, labelled by the symbol,
\* matches no row of df: the column is NaN.
SetColumn(df, value) ==
    IF value.kind = "series" THEN [exc |-> NoExc, column |-> value.values]
    ELSE IF value.columns > 1
         THEN [exc |-> Exc("ValueError", 0), column |-> << >>]
         ELSE [exc |-> NoExc, column |-> [i \in DOMAIN df |-> NaNMean]]

\* compute_maco_features: the exception it raises (NoExc if none) and the frame
\* it returns
compute_maco_features(df, fast, slow) ==
    LET sorted == sort_values(df)
        fastCol == SetColumn(sorted, groupby_apply(sorted, fast))
        slowCol == SetColumn(sorted, groupby_apply(sorted, slow))
    IN  IF fastCol.exc # NoExc THEN [exc |-> fastCol.exc, df |-> << >>]
        ELSE IF slowCol.exc # NoExc THEN [exc |-> slowCol.exc, df |-> << >>]
        ELSE [exc |-> NoExc,
              df |-> [i \in DOMAIN sorted |->
                        [symbol |-> sorted[i].symbol,
                         trade_date |-> sorted[i].trade_date,
                         close |-> sorted[i].close,
                         sma_fast |-> fastCol.column[i],
                         sma_slow |-> slowCol.column[i]]]]

\* a lag over the whole frame, across the symbols
PrevRowUngrouped(df, i) == i - 1

\* df.groupby("symbol")[...].shift(1), in a sorted frame: the row before row i
\* if it is of the same symbol, else none (0)
PrevRow(df, i) == IF i > 1 /\ df[i - 1].symbol = df[i].symbol THEN i - 1 ELSE 0

\* a classification by the level of the bar alone: fast above or below slow
classifyLevel(prev_fast, prev_slow, fast, slow) ==
    IF IsNa(prev_fast) \/ IsNa(prev_slow) THEN <<"HOLD", "NONE">>
    ELSE IF Less(slow, fast) THEN <<"BUY", "GOLDEN">>
    ELSE IF Less(fast, slow) THEN <<"SELL", "DEAD">>
    ELSE <<"HOLD", "NONE">>

\* a classification whose legs on the bar itself are not strict
classifyLoose(prev_fast, prev_slow, fast, slow) ==
    IF IsNa(prev_fast) \/ IsNa(prev_slow) THEN <<"HOLD", "NONE">>
    ELSE IF LessEq(prev_fast, prev_slow) /\ LessEq(slow, fast) THEN <<"BUY", "GOLDEN">>
    ELSE IF LessEq(prev_slow, prev_fast) /\ LessEq(fast, slow) THEN <<"SELL", "DEAD">>
    ELSE <<"HOLD", "NONE">>

\* a classification whose legs on the previous bar are strict
classifyStrict(prev_fast, prev_slow, fast, slow) ==
    IF IsNa(prev_fast) \/ IsNa(prev_slow) THEN <<"HOLD", "NONE">>
    ELSE IF Less(prev_fast, prev_slow) /\ Less(slow, fast) THEN <<"BUY", "GOLDEN">>
    ELSE IF Less(prev_slow, prev_fast) /\ Less(fast, slow) THEN <<"SELL", "DEAD">>
    ELSE <<"HOLD", "NONE">>

\* classify
classify(prev_fast, prev_slow, fast, slow) ==
    IF IsNa(prev_fast) \/ IsNa(prev_slow) THEN <<"HOLD", "NONE">>
    ELSE IF LessEq(prev_fast, prev_slow) /\ Less(slow, fast) THEN <<"BUY", "GOLDEN">>
    ELSE IF LessEq(prev_slow, prev_fast) /\ Less(fast, slow) THEN <<"SELL", "DEAD">>
    ELSE <<"HOLD", "NONE">>

\* generate_signals
generate_signals(df) ==
    LET sorted == sort_values(df)
        prev(i, col) == IF PrevRow(sorted, i) = 0 THEN NaNMean
                        ELSE sorted[PrevRow(sorted, i)][col]
        sigs == [i \in DOMAIN sorted |->
                    classify(prev(i, "sma_fast"), prev(i, "sma_slow"),
                             sorted[i].sma_fast, sorted[i].sma_slow)]
    IN  [i \in DOMAIN sorted |->
            [symbol |-> sorted[i].symbol,
             trade_date |-> sorted[i].trade_date,
             close |-> sorted[i].close,
             sma_fast |-> sorted[i].sma_fast,
             sma_slow |-> sorted[i].sma_slow,
             signal |-> sigs[i][1],
             crossover |-> sigs[i][2]]]

\* the first row of every symbol
EarliestPerSymbol(df) ==
    {i \in DOMAIN df : \A j \in DOMAIN df : df[j].symbol = df[i].symbol => i <= j}

\* groupby("symbol").tail(1), in a sorted frame: the last row of every symbol
LatestPerSymbol(df) ==
    {i \in DOMAIN df : \A j \in DOMAIN df : df[j].symbol = df[i].symbol => j <= i}

\* write_next_day_prediction: the frame `out` it loads
write_next_day_prediction(df) ==
    LET sorted == sort_values(df)
        latest == LatestPerSymbol(sorted)
        nth(k) == CHOOSE i \in latest : Cardinality({j \in latest : j < i}) = k - 1
    IN  [k \in 1..Cardinality(latest) |->
            [trade_date |-> sorted[nth(k)].trade_date,
             symbol |-> sorted[nth(k)].symbol,
             predicted_signal |-> sorted[nth(k)].signal,
             predicted_direction |->
                 IF LessEq(sorted[nth(k)].sma_slow, sorted[nth(k)].sma_fast)
                 THEN "UP" ELSE "DOWN",
             predicted_close |-> sorted[nth(k)].close]]

\* the inputs of the engine: rows of prices_1d, their close null or a number
MacoDates == {0, 1}
MacoCloses == {NaN, 10, 12}
PriceRows ==
    {[symbol |-> sym, trade_date |-> d, close |-> c] :
        sym \in SymbolSet, d \in MacoDates, c \in MacoCloses}
PriceFrames == SeqsOf(PriceRows, 0, MaxPriceRows)
\* the defaults of compute_maco_features, with which main calls it
DefaultFast == 10
DefaultSlow == 20
Windows == 1..MaxWindow
WindowPairs == (Windows \X Windows) \cup {<<DefaultFast, DefaultSlow>>}

\* one symbol's series of closes 10, 10, 10, 12, 14, 9, 8, a bar a day
ScenarioCloses == <<10, 10, 10, 12, 14, 9, 8>>
ScenarioFrame(symbol) ==
    [i \in DOMAIN ScenarioCloses |->
        [symbol |-> symbol, trade_date |-> i - 1, close |-> ScenarioCloses[i]]]

\* frames with sma_fast and sma_slow, as generate_signals may be handed
\* sma_fast is null, below, at or above sma_slow
FastValues == {NaNMean, Mean(1, 1), Mean(3, 2), Mean(2, 1)}
SlowValues == {Mean(3, 2)}
FeatureRows ==
    {[symbol |-> sym, trade_date |-> d, close |-> c, sma_fast |-> f, sma_slow |-> sl] :
        sym \in SymbolSet, d \in MacoDates, c \in MacoCloses \ {NaN},
        f \in FastValues, sl \in SlowValues}
FeatureFrames == SeqsOf(FeatureRows, 1, MaxFeatureRows)

\* the series of one symbol, a bar a day, with any sequence of sma_fast and
\* sma_slow values
SeriesFrame(symbol, fasts, slows) ==
    [i \in DOMAIN fasts |->
        [symbol |-> symbol, trade_date |-> i - 1, close |-> 10,
         sma_fast |-> fasts[i], sma_slow |-> slows[i]]]
SeriesFrames ==
    UNION {{SeriesFrame(sym, fasts, slows) :
                sym \in SymbolSet, fasts \in [1..n -> FastValues],
                slows \in [1..n -> SlowValues]}
           : n \in 1..MaxSeries}

----------------------------------------------------------------------------
(* State *)

VARIABLES
    mode,        \* "fetch": a bare call of fetch_yahoo_prices; "snapshot", "backfill": a run;
                 \* "maco": the feature and signal engine
    apiKey,      \* settings.finnhub_api_key is non-empty
    symbols,     \* target_symbols
    idx,         \* position of the loop over target_symbols (1-based)
    pc,          \* position of the run
    frames,      \* frames / all_frames: the bars of the run's batch, in order
    audit,       \* the object store: the blobs written, by object name
    loadCalls,   \* calls of load_to_prices_1d
    abortCause,  \* class of the exception that ended the run, "none" if none did
    fbDates,     \* fetch_yahoo_fallback: the trade_dates of df, {} outside the loop body
    primReqs,    \* per symbol position: HTTP requests sent to Finnhub
    primOut,     \* per symbol position: what the primary yielded
    primFail,    \* the exception of the latest fetch_snapshot call
    fbCalls,     \* per symbol position: calls of fetch_yahoo_fallback
    outcome,     \* per symbol position: "pending", "primary", "fallback", "backfill", "skipped"
    ypc,         \* fetch_yahoo_prices: "idle", "running", "returned", "raised"
    attempt,     \* its loop variable
    requests,    \* session.get calls of this call
    sleeps,      \* time.sleep calls of this call
    lastFail,    \* the exception of the latest failed attempt
    lastJitter,  \* the jitter drawn for the latest sleep
    lastDelay,   \* the latest total_sleep
    yres,        \* the frame returned
    prices,      \* compute_maco.main: the frame of fetch_prices
    fastWindow,  \* compute_maco_features: sma_fast
    slowWindow,  \* compute_maco_features: sma_slow
    features,    \* the frame compute_maco_features returned
    signals,     \* the frame generate_signals returned
    preds,       \* the frame `out` loaded into PRED_NEXT_DAY
    written,     \* the tables loaded, in order
    mpc,         \* position of the engine: "idle", "prices", "features", "signals",
                 \* "done", "raised"
    vendorData,  \* a bare call of an adapter: the vendor's response to its request
    snapRecord   \* a bare call of fetch_snapshot: the dict returned, NoBar for None

runVars == <<mode, apiKey, symbols, idx, pc, frames, audit, loadCalls, abortCause, fbDates>>
symVars == <<primReqs, primOut, primFail, fbCalls, outcome>>
callVars == <<ypc, attempt, requests, sleeps, lastFail, lastJitter, lastDelay, yres>>
macoVars == <<prices, fastWindow, slowWindow, features, signals, preds, written, mpc>>
adapterVars == <<vendorData, snapRecord>>
vars == <<runVars, symVars, callVars, macoVars, adapterVars>>

\* no response is kept outside a bare call of an adapter
NoResponse == [status |-> 0]
AdapterIdle ==
    /\ vendorData = NoResponse
    /\ snapRecord = NoBar

\* the engine at rest, during the ingestion runs
MacoIdle ==
    /\ prices = << >>
    /\ fastWindow = DefaultFast
    /\ slowWindow = DefaultSlow
    /\ features = << >>
    /\ signals = << >>
    /\ preds = << >>
    /\ written = << >>
    /\ mpc = "idle"

----------------------------------------------------------------------------
(* fetch_yahoo_prices: the call *)

CallIs(p) ==
    /\ ypc' = p
    /\ attempt' = 0
    /\ requests' = 0
    /\ sleeps' = 0
    /\ lastFail' = NoExc
    /\ lastJitter' = 0
    /\ lastDelay' = 0
    /\ yres' = EmptyFrame

\* what one attempt can come to, over all vendor responses
AttemptOutcomes == {Attempt(resp) : resp \in YahooResponses}

\* the exceptions an attempt can raise, and the frames it can return
Failures == {a.exc : a \in {o \in AttemptOutcomes : o.exc # NoExc}}
ParsedFrames == {a.df : a \in {o \in AttemptOutcomes : o.exc = NoExc}}

\* the trade_dates of a frame
TradeDates(df) == {df[i].trade_date : i \in DOMAIN df}

\* what fetch_yahoo_fallback can make of the frames it may get: the row
\* df.sort_values("trade_date").iloc[-1] gives it, and the dates of the frame
FallbackChoices ==
    UNION {{[row |-> df[i], dates |-> TradeDates(df)] : i \in LatestRows(df)}
           : df \in ParsedFrames}

\* the failed attempt is followed by another one
Retries(exc) == Caught(exc) /\ WillRetry(exc, attempt)

\* lastFail, lastJitter and lastDelay record exc, jitter and total_sleep of the
\* except block; they are kept for a bare call, where the properties of the
\* retry policy are stated, and dropped once the block is left inside a run
Kept(x, dropped) == IF mode = "fetch" THEN x ELSE dropped

\* a failed attempt, the sleep, and `continue`
YahooRetry ==
    /\ ypc = "running"
    /\ attempt < max_retries
    /\ \E exc \in Failures :
          /\ Retries(exc)
          /\ \E jitter \in Jitters :
                /\ lastJitter' = Kept(jitter, 0)
                /\ lastDelay' = Kept(TotalSleep(attempt, jitter), 0)
          /\ requests' = requests + 1
          /\ lastFail' = Kept(exc, NoExc)
          /\ sleeps' = sleeps + 1
          /\ attempt' = attempt + 1
    /\ UNCHANGED <<ypc, yres>>
    /\ UNCHANGED <<runVars, symVars, macoVars, adapterVars>>

\* the attempt that ends a bare call: a failure that is not retried, or a parsed frame
FetchReturn ==
    /\ mode = "fetch"
    /\ ypc = "running"
    /\ attempt < max_retries
    /\ \/ \E exc \in Failures :
             /\ ~Retries(exc)
             /\ lastFail' = exc
             /\ ypc' = IF Caught(exc) THEN "returned" ELSE "raised"
             /\ yres' = EmptyFrame
       \/ \E df \in ParsedFrames :
             /\ lastFail' = lastFail
             /\ ypc' = "returned"
             /\ yres' = df
    /\ requests' = requests + 1
    /\ UNCHANGED <<attempt, sleeps, lastJitter, lastDelay>>
    /\ UNCHANGED <<runVars, symVars, macoVars, adapterVars>>

----------------------------------------------------------------------------
(* The runs *)

Sym == symbols[idx]

\* a run that logs the exception and goes on with the next symbol
AbortLogged(cls) ==
    /\ idx' = idx + 1
    /\ pc' = IF idx + 1 > Len(symbols) THEN "load" ELSE "symbol"
    /\ abortCause' = cls
    /\ UNCHANGED <<frames, loadCalls>>

\* an exception leaves run: nothing of the run is executed after it
Abort(cls) ==
    /\ pc' = "aborted"
    /\ abortCause' = cls
    /\ UNCHANGED <<idx, frames, loadCalls>>

\* `continue` / the end of the loop body; the backfill run enters
\* fetch_yahoo_prices for the next symbol at once
NextSymbol ==
    /\ idx' = idx + 1
    /\ pc' = IF idx + 1 > Len(symbols) THEN "load"
             ELSE IF mode = "backfill" THEN "fetch" ELSE "symbol"
    /\ IF mode = "backfill" /\ idx + 1 <= Len(symbols)
       THEN CallIs("running") ELSE CallIs("idle")
    /\ UNCHANGED <<abortCause, loadCalls>>

\* finnhub_snapshot.run, one symbol: the primary fetch; the audit write and the
\* append if it gave a bar, else the entry into fetch_yahoo_fallback
SnapshotPrimary ==
    /\ mode = "snapshot"
    /\ pc = "symbol"
    /\ \E out \in (IF apiKey THEN {FetchSnapshot(Sym, r) : r \in FinnhubResponses}
                             ELSE {NotConfigured}) :
          LET record == IF out.exc = NoExc THEN out.bar ELSE NoBar
          IN  /\ primReqs' = [primReqs EXCEPT ![idx] = IF apiKey THEN PrimaryAttempts ELSE 0]
              /\ primFail' = out.exc
              /\ primOut' = [primOut EXCEPT ![idx] =
                               IF ~apiKey THEN "nokey"
                               ELSE IF out.exc # NoExc THEN "raised"
                               ELSE IF record = NoBar THEN "none" ELSE "bar"]
              /\ IF out.exc # NoExc /\ ~RunCatches(out.exc)
                 THEN /\ Abort(out.exc.cls)
                      /\ CallIs("idle")
                      /\ UNCHANGED <<audit, fbCalls, outcome>>
                 ELSE IF ~NeedsFallback(record)
                 THEN /\ UNCHANGED fbCalls
                      /\ \E sinkOk \in BOOLEAN :
                            IF sinkOk
                            THEN /\ audit' = WriteRawJson(audit, Sym, record, "finnhub")
                                 /\ frames' = Append(frames, record)
                                 /\ outcome' = [outcome EXCEPT ![idx] = "primary"]
                                 /\ NextSymbol
                            ELSE /\ Abort("SinkError")
                                 /\ CallIs("idle")
                                 /\ UNCHANGED <<audit, outcome>>
                 ELSE /\ fbCalls' = [fbCalls EXCEPT ![idx] = fbCalls[idx] + 1]
                      /\ pc' = "fallback"
                      /\ CallIs("running")
                      /\ UNCHANGED <<idx, frames, audit, loadCalls, abortCause, outcome>>
    /\ fbDates' = {}
    /\ UNCHANGED <<mode, apiKey, symbols, macoVars, adapterVars>>

\* the attempt that ends the fallback's fetch_yahoo_prices, the rest of
\* fetch_yahoo_fallback, and the rest of the loop body of finnhub_snapshot.run
SnapshotFallback ==
    /\ mode = "snapshot"
    /\ pc = "fallback"
    /\ ypc = "running"
    /\ attempt < max_retries
    /\ \/ \E exc \in Failures :
             /\ ~Retries(exc)
             /\ UNCHANGED fbDates
             /\ IF ~Caught(exc)
                THEN /\ Abort(exc.cls)
                     /\ CallIs("raised")
                     /\ UNCHANGED <<audit, outcome>>
                ELSE /\ outcome' = [outcome EXCEPT ![idx] = "skipped"]
                     /\ NextSymbol
                     /\ UNCHANGED <<frames, audit>>
       \/ \E choice \in FallbackChoices :
             LET fallback == FallbackRecord(Sym, choice.row)
             IN  /\ fbDates' = choice.dates
                 /\ IF fallback.exc # NoExc
                    THEN /\ Abort(fallback.exc.cls)
                         /\ CallIs("idle")
                         /\ UNCHANGED <<audit, outcome>>
                    ELSE \E sinkOk \in BOOLEAN :
                           IF sinkOk
                           THEN /\ audit' = WriteRawJson(audit, Sym, fallback.bar, "yahoo")
                                /\ frames' = Append(frames, fallback.bar)
                                /\ outcome' = [outcome EXCEPT ![idx] = "fallback"]
                                /\ NextSymbol
                           ELSE /\ Abort("SinkError")
                                /\ CallIs("idle")
                                /\ UNCHANGED <<audit, outcome>>
    /\ UNCHANGED <<mode, apiKey, symbols, macoVars, adapterVars>>
    /\ UNCHANGED <<primReqs, primOut, primFail, fbCalls>>

\* the attempt that ends fetch_yahoo_prices in yahoo_backfill.run, and the rest
\* of the loop body: n rows reach the object store, all of them unless a write fails
BackfillSymbol ==
    /\ mode = "backfill"
    /\ pc = "fetch"
    /\ ypc = "running"
    /\ attempt < max_retries
    /\ \/ \E exc \in Failures :
             /\ ~Retries(exc)
             /\ IF ~Caught(exc)
                THEN /\ Abort(exc.cls)
                     /\ CallIs("raised")
                     /\ UNCHANGED <<audit, outcome>>
                ELSE /\ outcome' = [outcome EXCEPT ![idx] = "skipped"]
                     /\ NextSymbol
                     /\ UNCHANGED <<frames, audit>>
       \/ \E df \in ParsedFrames, n \in 0..MaxBars :
             /\ n <= Len(df)
             /\ audit' = WriteRawToGcs(audit, df, Sym, n)
             /\ IF n = Len(df)
                THEN /\ frames' = frames \o BarsOf(Sym, df)
                     /\ outcome' = [outcome EXCEPT ![idx] = "backfill"]
                     /\ NextSymbol
                ELSE /\ Abort("SinkError")
                     /\ CallIs("idle")
                     /\ UNCHANGED outcome
    /\ UNCHANGED <<mode, apiKey, symbols, macoVars, adapterVars>>
    /\ UNCHANGED <<primReqs, primOut, primFail, fbCalls, fbDates>>

\* a run that loads whatever the batch holds, an empty batch included
RunLoadUnguarded ==
    /\ pc = "load"
    /\ \E sinkOk \in BOOLEAN :
          /\ loadCalls' = loadCalls + 1
          /\ pc' = IF sinkOk THEN "done" ELSE "aborted"
          /\ abortCause' = IF sinkOk THEN abortCause ELSE "SinkError"
    /\ fbDates' = {}
    /\ UNCHANGED <<mode, apiKey, symbols, idx, frames, audit, macoVars, adapterVars>>
    /\ UNCHANGED <<symVars, callVars>>

\* after the loop: `if frames: load_to_prices_1d(pd.concat(frames))`
RunLoad ==
    /\ pc = "load"
    /\ IF frames # <<>>
       THEN \E sinkOk \in BOOLEAN :
              /\ loadCalls' = loadCalls + 1
              /\ pc' = IF sinkOk THEN "done" ELSE "aborted"
              /\ abortCause' = IF sinkOk THEN abortCause ELSE "SinkError"
       ELSE /\ pc' = "done"
            /\ UNCHANGED <<loadCalls, abortCause>>
    /\ fbDates' = {}
    /\ UNCHANGED <<mode, apiKey, symbols, idx, frames, audit, macoVars, adapterVars>>
    /\ UNCHANGED <<symVars, callVars>>

\* the state in which run() enters its loop
RunInit(m) ==
    /\ mode = m
    /\ apiKey \in (IF m = "snapshot" THEN BOOLEAN ELSE {FALSE})
    /\ symbols \in SymbolLists
    /\ idx = 1
    /\ pc = IF m = "snapshot" THEN "symbol" ELSE "fetch"
    /\ frames = <<>>
    /\ audit = {}
    /\ loadCalls = 0
    /\ abortCause = "none"
    /\ primReqs = [i \in DOMAIN symbols |-> 0]
    /\ primOut = [i \in DOMAIN symbols |-> "unset"]
    /\ primFail = NoExc
    /\ fbCalls = [i \in DOMAIN symbols |-> 0]
    /\ fbDates = {}
    /\ outcome = [i \in DOMAIN symbols |-> "pending"]
    /\ ypc = IF m = "snapshot" THEN "idle" ELSE "running"
    /\ attempt = 0
    /\ requests = 0
    /\ sleeps = 0
    /\ lastFail = NoExc
    /\ lastJitter = 0
    /\ lastDelay = 0
    /\ yres = EmptyFrame
    /\ MacoIdle
    /\ AdapterIdle

\* Both ingestion runs
Init == RunInit("snapshot") \/ RunInit("backfill")

Next ==
    \/ SnapshotPrimary
    \/ SnapshotFallback
    \/ BackfillSymbol
    \/ YahooRetry
    \/ RunLoad

Spec == Init /\ [][Next]_vars

\* The snapshot run alone
SnapshotInit == RunInit("snapshot")

SnapshotNext ==
    \/ SnapshotPrimary
    \/ SnapshotFallback
    \/ YahooRetry
    \/ RunLoad

SnapshotSpec == SnapshotInit /\ [][SnapshotNext]_vars

----------------------------------------------------------------------------
(* A bare call of fetch_yahoo_prices *)

FetchInit ==
    /\ mode = "fetch"
    /\ apiKey = FALSE
    /\ symbols \in {<<s>> : s \in SymbolSet}
    /\ idx = 1
    /\ pc = "call"
    /\ frames = <<>>
    /\ audit = {}
    /\ loadCalls = 0
    /\ abortCause = "none"
    /\ primReqs = <<0>>
    /\ primOut = <<"unset">>
    /\ primFail = NoExc
    /\ fbCalls = <<0>>
    /\ fbDates = {}
    /\ outcome = <<"pending">>
    /\ ypc = "running"
    /\ attempt = 0
    /\ requests = 0
    /\ sleeps = 0
    /\ lastFail = NoExc
    /\ lastJitter = 0
    /\ lastDelay = 0
    /\ yres = EmptyFrame
    /\ MacoIdle
    /\ AdapterIdle

FetchNext == YahooRetry \/ FetchReturn

FetchSpec == FetchInit /\ [][FetchNext]_vars

----------------------------------------------------------------------------
(* The feature and signal engine: compute_maco.main *)

\* the ingestion at rest, while the engine runs
IngestionIdle ==
    /\ mode = "maco"
    /\ apiKey = FALSE
    /\ symbols = << >>
    /\ idx = 1
    /\ pc = "idle"
    /\ frames = << >>
    /\ audit = {}
    /\ loadCalls = 0
    /\ abortCause = "none"
    /\ primReqs = << >>
    /\ primOut = << >>
    /\ primFail = NoExc
    /\ fbCalls = << >>
    /\ fbDates = {}
    /\ outcome = << >>
    /\ ypc = "idle"
    /\ attempt = 0
    /\ requests = 0
    /\ sleeps = 0
    /\ lastFail = NoExc
    /\ lastJitter = 0
    /\ lastDelay = 0
    /\ yres = EmptyFrame
    /\ AdapterIdle

\* main: `if prices.empty: return`, then compute_maco_features
ComputeFeatures ==
    /\ mpc = "prices"
    /\ IF prices = << >>
       THEN /\ mpc' = "done"
            /\ UNCHANGED features
       ELSE LET result == compute_maco_features(prices, fastWindow, slowWindow)
            IN  IF result.exc # NoExc
                THEN /\ mpc' = "raised"
                     /\ UNCHANGED features
                ELSE /\ mpc' = "features"
                     /\ features' = result.df
    /\ UNCHANGED <<prices, fastWindow, slowWindow, signals, preds, written>>
    /\ UNCHANGED <<runVars, symVars, callVars, adapterVars>>

\* main: generate_signals
GenerateSignals ==
    /\ mpc = "features"
    /\ signals' = generate_signals(features)
    /\ mpc' = "signals"
    /\ UNCHANGED <<prices, fastWindow, slowWindow, features, preds, written>>
    /\ UNCHANGED <<runVars, symVars, callVars, adapterVars>>

\* the tables main loads, in its order
Tables == <<"maco_features", "signals_maco", "pred_next_day">>

\* main: write_features, write_signals, write_next_day_prediction; the first n
\* loads succeed
WriteTables ==
    /\ mpc = "signals"
    /\ \E n \in 0..Len(Tables) :
          /\ written' = SubSeq(Tables, 1, n)
          /\ IF n = Len(Tables)
             THEN /\ preds' = write_next_day_prediction(signals)
                  /\ mpc' = "done"
             ELSE /\ mpc' = "raised"
                  /\ UNCHANGED preds
    /\ UNCHANGED <<prices, fastWindow, slowWindow, features, signals>>
    /\ UNCHANGED <<runVars, symVars, callVars, adapterVars>>

\* main, after fetch_prices returned any frame of prices_1d, or the series of
\* one symbol with windows 2 and 3
MacoInit ==
    /\ IngestionIdle
    /\ \/ /\ prices \in PriceFrames
          /\ \E pair \in WindowPairs :
                /\ fastWindow = pair[1]
                /\ slowWindow = pair[2]
       \/ /\ prices \in {ScenarioFrame(sym) : sym \in SymbolSet}
          /\ fastWindow = 2
          /\ slowWindow = 3
    /\ features = << >>
    /\ signals = << >>
    /\ preds = << >>
    /\ written = << >>
    /\ mpc = "prices"

MacoNext ==
    \/ ComputeFeatures
    \/ GenerateSignals
    \/ WriteTables

MacoSpec == MacoInit /\ [][MacoNext]_vars

\* generate_signals and write_next_day_prediction on any frame that has the
\* columns sma_fast and sma_slow
SignalInit ==
    /\ IngestionIdle
    /\ prices = << >>
    /\ fastWindow = DefaultFast
    /\ slowWindow = DefaultSlow
    /\ features \in FeatureFrames
    /\ signals = << >>
    /\ preds = << >>
    /\ written = << >>
    /\ mpc = "features"

SignalNext ==
    \/ GenerateSignals
    \/ WriteTables

SignalSpec == SignalInit /\ [][SignalNext]_vars

\* generate_signals and write_next_day_prediction on the series of one symbol
SeriesInit ==
    /\ IngestionIdle
    /\ prices = << >>
    /\ fastWindow = DefaultFast
    /\ slowWindow = DefaultSlow
    /\ features \in SeriesFrames
    /\ signals = << >>
    /\ preds = << >>
    /\ written = << >>
    /\ mpc = "features"

SeriesSpec == SeriesInit /\ [][SignalNext]_vars

----------------------------------------------------------------------------
(* A bare call of fetch_snapshot, and one pass of the loop of               *)
(* fetch_yahoo_prices, on a given vendor response                           *)

\* the passes of the loop a response may arrive in: the first and the last
AttemptsDrawn == {0, max_retries - 1}

AdapterInit ==
    /\ mode = "adapter"
    /\ apiKey = TRUE
    /\ symbols \in {<<s>> : s \in SymbolSet}
    /\ idx = 1
    /\ \/ /\ pc = "finnhub"
          /\ vendorData \in FinnhubResponses
          /\ ypc = "idle"
          /\ attempt = 0
       \/ /\ pc = "yahoo"
          /\ vendorData \in YahooResponses
          /\ ypc = "running"
          /\ attempt \in AttemptsDrawn
    /\ frames = << >>
    /\ audit = {}
    /\ loadCalls = 0
    /\ abortCause = "none"
    /\ primReqs = <<0>>
    /\ primOut = <<"unset">>
    /\ primFail = NoExc
    /\ fbCalls = <<0>>
    /\ fbDates = {}
    /\ outcome = <<"pending">>
    /\ requests = attempt
    /\ sleeps = attempt
    /\ lastFail = NoExc
    /\ lastJitter = 0
    /\ lastDelay = 0
    /\ yres = EmptyFrame
    /\ snapRecord = NoBar
    /\ MacoIdle

\* fetch_snapshot(sym), the vendor answering vendorData
SnapshotCall ==
    /\ mode = "adapter"
    /\ pc = "finnhub"
    /\ LET out == FetchSnapshot(Sym, vendorData)
       IN  /\ primReqs' = [primReqs EXCEPT ![idx] = PrimaryAttempts]
           /\ primFail' = out.exc
           /\ primOut' = [primOut EXCEPT ![idx] =
                            IF out.exc # NoExc THEN "raised"
                            ELSE IF out.bar = NoBar THEN "none" ELSE "bar"]
           /\ snapRecord' = out.bar
           /\ pc' = IF out.exc # NoExc THEN "raised" ELSE "returned"
    /\ UNCHANGED <<mode, apiKey, symbols, idx, frames, audit, loadCalls, abortCause, fbDates>>
    /\ UNCHANGED <<fbCalls, outcome, vendorData>>
    /\ UNCHANGED <<callVars, macoVars>>

\* one pass of `for attempt in range(max_retries)`, session.get answering
\* vendorData: the try body and, if it raises, the except block
YahooAttempt ==
    /\ mode = "adapter"
    /\ pc = "yahoo"
    /\ ypc = "running"
    /\ LET tried == Attempt(vendorData)
       IN  IF tried.exc = NoExc
           THEN /\ ypc' = "returned"
                /\ yres' = tried.df
                /\ UNCHANGED <<attempt, sleeps, lastFail, lastJitter, lastDelay>>
           ELSE IF Retries(tried.exc)
           THEN /\ \E jitter \in Jitters :
                      /\ lastJitter' = jitter
                      /\ lastDelay' = TotalSleep(attempt, jitter)
                /\ lastFail' = tried.exc
                /\ sleeps' = sleeps + 1
                /\ attempt' = attempt + 1
                /\ UNCHANGED <<ypc, yres>>
           ELSE /\ lastFail' = tried.exc
                /\ ypc' = IF Caught(tried.exc) THEN "returned" ELSE "raised"
                /\ yres' = EmptyFrame
                /\ UNCHANGED <<attempt, sleeps, lastJitter, lastDelay>>
    /\ requests' = requests + 1
    /\ pc' = "attempted"
    /\ UNCHANGED <<mode, apiKey, symbols, idx, frames, audit, loadCalls, abortCause, fbDates>>
    /\ UNCHANGED <<symVars, macoVars, adapterVars>>

AdapterNext ==
    \/ SnapshotCall
    \/ YahooAttempt

AdapterSpec == AdapterInit /\ [][AdapterNext]_vars

----------------------------------------------------------------------------
(* Properties *)

Positions == DOMAIN symbols
RunEnded == pc \in {"done", "aborted"}
LoopLeft == idx > Len(symbols)
Contributed == {i \in Positions : outcome[i] \in {"primary", "fallback", "backfill"}}
BarsFrom(provider) == {j \in DOMAIN frames : frames[j].provider = provider}
Transient(exc) ==
    \/ exc.cls = "Timeout"
    \/ exc.cls = "HTTPError" /\ (exc.status = 429 \/ exc.status >= 500)

\* C1: in a snapshot run no fetch failure and no failure in processing a fetch
\* result aborts the run: the only exception that ends a run is a failed
\* object-store or warehouse write, and a run that ends otherwise has processed
\* every configured symbol.
C1_FetchFailureNeverAborts ==
    /\ pc = "aborted" => abortCause = "SinkError"
    /\ pc = "done" => LoopLeft /\ \A i \in Positions : outcome[i] # "pending"

\* C2: in a snapshot run the fallback is called exactly once for a symbol whose
\* primary yielded no bar (returned nothing, raised, or not configured), never
\* for a symbol whose primary returned a bar; a symbol is skipped only after its
\* one fallback call, and a skipped symbol contributes no bar.
C2_FallbackExactlyOnce ==
    /\ \A i \in Positions :
          /\ fbCalls[i] <= 1
          /\ primOut[i] = "bar" => fbCalls[i] = 0
          /\ primOut[i] \in {"none", "raised", "nokey"} => fbCalls[i] = 1
          /\ outcome[i] = "skipped" => fbCalls[i] = 1 /\ primOut[i] # "bar"
          /\ outcome[i] = "fallback" => fbCalls[i] = 1
          /\ outcome[i] = "primary" => primOut[i] = "bar"
    /\ Len(frames) = Cardinality(Contributed)

C2_Witness ==
    /\ pc = "done"
    /\ Len(symbols) = 2
    /\ primOut[1] = "raised" /\ fbCalls[1] = 1 /\ outcome[1] = "skipped"
    /\ primOut[2] = "bar" /\ fbCalls[2] = 0 /\ outcome[2] = "primary"

\* C3 as stated: in both runs the warehouse load is called at most once, only
\* after the last symbol, and a run that has ended has called it if and only if
\* some symbol contributed a bar; if every symbol failed on every source the
\* run ends without a load and without an error.
C3_LoadIffContributed ==
    /\ loadCalls <= 1
    /\ loadCalls = 1 => LoopLeft
    /\ RunEnded => (loadCalls = 1 <=> Contributed # {})
    /\ (RunEnded /\ \A i \in Positions : outcome[i] = "skipped")
          => loadCalls = 0 /\ pc = "done"

\* C3 amended: the load is called at most once, only after the last symbol and
\* only with a non-empty batch; a run that leaves the loop over the symbols
\* calls it if and only if some symbol contributed a bar, a run aborted inside
\* the loop never calls it; if every symbol was skipped the run ends without a
\* load and without an error.
C3_LoadAfterLoopIffContributed ==
    /\ loadCalls <= 1
    /\ loadCalls = 1 => LoopLeft /\ frames # <<>>
    /\ (frames # <<>>) <=> (Contributed # {})
    /\ pc = "done" => (loadCalls = 1 <=> Contributed # {})
    /\ (pc = "aborted" /\ LoopLeft) => loadCalls = 1
    /\ (pc = "aborted" /\ ~LoopLeft) => loadCalls = 0
    /\ (LoopLeft /\ \A i \in Positions : outcome[i] = "skipped")
          => loadCalls = 0 /\ pc \in {"load", "done"} /\ abortCause = "none"

C3_Witness ==
    /\ pc = "done"
    /\ mode = "backfill"
    /\ Len(symbols) = 2
    /\ outcome[1] = "skipped" /\ outcome[2] = "backfill"
    /\ loadCalls = 1

\* C4: one call of fetch_yahoo_prices issues at most max_retries requests and
\* sleeps at most max_retries - 1 times; once max_retries requests are out the
\* call is over.
C4_AttemptCap ==
    /\ requests <= max_retries
    /\ sleeps <= max_retries - 1
    /\ sleeps <= requests
    /\ requests >= max_retries => ypc # "running"

C4_Witness ==
    /\ ypc = "returned"
    /\ requests = max_retries
    /\ sleeps = max_retries - 1

\* C5: the delay slept after failed attempt k is min(base * 2^k + jitter, max_delay)
\* for the jitter drawn, so it never exceeds max_delay, and within one call a
\* delay is never shorter than the one before it.
C5_DelayFormula ==
    /\ [](sleeps >= 1 =>
            /\ lastDelay = Min(base_sleep * Pow2(attempt - 1) + lastJitter, max_sleep)
            /\ lastDelay <= max_sleep
            /\ lastJitter \in 0..base_sleep)
    /\ [][(sleeps >= 1 /\ sleeps' = sleeps + 1) => lastDelay' >= lastDelay]_vars

C5_Witness ==
    /\ sleeps = max_retries - 1
    /\ lastJitter = base_sleep
    /\ lastDelay = max_sleep

\* C6: fetch_yahoo_prices never lets an exception out, whatever fails: it is
\* over after at most max_retries requests and returns a parsed, non-empty
\* series or an empty frame.
C6_NeverRaises ==
    /\ ypc # "raised"
    /\ ypc = "running" => requests < max_retries
    /\ ypc = "returned" =>
          \/ yres = EmptyFrame /\ lastFail # NoExc
          \/ Len(yres) >= 1 /\ \A i \in DOMAIN yres : yres[i].trade_date \in 0..Today

C6_Witness ==
    /\ ypc = "returned"
    /\ requests = max_retries
    /\ lastFail = Exc("ValueError", 0)
    /\ yres = EmptyFrame

\* C7: after a failed attempt k another request follows if and only if
\* k < max_retries - 1 and the failure is not an HTTP 404: a 404 ends the call
\* at once, empty and without a sleep; every other failure is slept on and
\* retried, and ends the call empty only at the cap.
C7_RetryUnless404OrCap ==
    /\ lastFail = Exc("HTTPError", 404) =>
          ypc = "returned" /\ yres = EmptyFrame /\ sleeps = requests - 1
    /\ (ypc = "running" /\ requests >= 1) =>
          lastFail # NoExc /\ sleeps = requests /\ requests <= max_retries - 1
    /\ (ypc = "returned" /\ yres = EmptyFrame) =>
          /\ lastFail # NoExc
          /\ sleeps = requests - 1
          /\ lastFail = Exc("HTTPError", 404) \/ requests = max_retries

C7_Witness ==
    /\ ypc = "returned"
    /\ lastFail = Exc("HTTPError", 404)
    /\ requests = 3
    /\ sleeps = 2

\* C8 as stated: fetch_snapshot never raises to the run.
C8_PrimaryNeverRaises == \A i \in Positions : primOut[i] # "raised"

\* C8 amended: fetch_snapshot returns None for a non-OK vendor status or an
\* empty timestamp array and raises on an HTTP error status, a network failure
\* or a truncated payload; the run catches every such exception and goes on to
\* the fallback as if nothing had been returned, so none of them ends the run.
C8_PrimaryFailureIsCaught ==
    /\ \A i \in Positions :
          /\ primOut[i] = "raised" => fbCalls[i] = 1 /\ outcome[i] # "primary"
          /\ primOut[i] = "none" => fbCalls[i] = 1 /\ outcome[i] # "primary"
    /\ abortCause \notin {"HTTPError", "Timeout", "IndexError"}
    /\ primFail # NoExc =>
          /\ primFail.cls \in {"HTTPError", "Timeout", "IndexError"}
          /\ \E i \in Positions : primOut[i] = "raised"

C8_Witness ==
    /\ pc = "done"
    /\ Len(symbols) = 1
    /\ primFail = Exc("Timeout", 0)
    /\ primOut[1] = "raised"
    /\ outcome[1] = "fallback"

C10_StoredBarsHaveClose ==
    /\ \A j \in BarsFrom("yahoo") : ~Missing(frames[j].close)
    /\ \A b \in audit : b.content.provider = "yahoo" => ~Missing(b.content.close)

\* C11: the batch of a run holds at most one bar per (symbol, trade_date,
\* provider), whatever the vendor payloads and the configured symbol list.
C11_OneBarPerKey ==
    \A j, k \in DOMAIN frames :
        (/\ frames[j].symbol = frames[k].symbol
         /\ frames[j].trade_date = frames[k].trade_date
         /\ frames[j].provider = frames[k].provider) => j = k

\* the object name the audit write of a bar must have had
AuditNameOf(bar) ==
    ObjectName(CASE bar.provider = "finnhub" -> "raw/finnhub"
                 [] bar.provider = "yahoo" -> "raw/yahoo_finance",
               bar.symbol, bar.trade_date, "candles.json")

\* C12: in a snapshot run every bar of the batch has its payload in the object
\* store, under the prefix of its provider (raw/finnhub, raw/yahoo_finance), its
\* symbol and its trade_date; the bar appended last is the content written
\* last under its name, so no bar enters the batch without its audit write.
C12_AuditBeforeBatch ==
    /\ \A j \in DOMAIN frames : \E b \in audit : b.name = AuditNameOf(frames[j])
    /\ frames # <<>> =>
          [name |-> AuditNameOf(Last(frames)), content |-> Last(frames)] \in audit
    /\ \A b \in audit : \E j \in DOMAIN frames : b.name = AuditNameOf(frames[j])

C12_Witness ==
    /\ pc = "done"
    /\ Len(frames) = 2
    /\ frames[1].provider = "finnhub" /\ frames[2].provider = "yahoo"
    /\ frames[1].symbol # frames[2].symbol
    /\ Cardinality(audit) = 2

\* C13: a failed object-store or warehouse write ends the run and is not tried
\* again: after a failed audit write the symbol at hand contributes nothing, no
\* later symbol is fetched and no load is made; a failed load was the run's
\* only load.
C13_SinkFailureEndsRun ==
    abortCause = "SinkError" =>
        /\ pc = "aborted"
        /\ ypc # "running"
        /\ loadCalls <= 1
        /\ LoopLeft => loadCalls = 1
        /\ ~LoopLeft =>
              /\ loadCalls = 0
              /\ outcome[idx] = "pending"
              /\ \A i \in Positions :
                    i > idx => outcome[i] = "pending" /\ primReqs[i] = 0 /\ fbCalls[i] = 0

C13_Witness ==
    /\ pc = "aborted"
    /\ abortCause = "SinkError"
    /\ mode = "backfill"
    /\ Len(symbols) = 2
    /\ idx = 1
    /\ audit # {}
    /\ frames = <<>>
    /\ outcome[2] = "pending"

\* C14: a symbol served by the fallback contributes exactly one bar: the step
\* that serves it appends one bar carrying the symbol, provider yahoo and the
\* greatest trade_date of the frame the fallback got, and writes that bar alone
\* to the audit store; bars of provider yahoo enter the batch in no other way.
C14_FallbackEmitsLatest ==
    /\ [](Cardinality(BarsFrom("yahoo"))
            = Cardinality({i \in Positions : outcome[i] = "fallback"}))
    /\ [][(pc = "fallback" /\ outcome'[idx] = "fallback") =>
            /\ frames' = Append(frames, Last(frames'))
            /\ Last(frames').symbol = symbols[idx]
            /\ Last(frames').provider = "yahoo"
            /\ Last(frames').trade_date \in fbDates'
            /\ \A d \in fbDates' : d <= Last(frames').trade_date
            /\ audit' = Upload(audit, AuditNameOf(Last(frames')), Last(frames'))]_vars

C14_Witness ==
    /\ pc = "load"
    /\ Len(symbols) = 1
    /\ primOut[1] = "none"
    /\ outcome[1] = "fallback"
    /\ fbDates = {0, 1}
    /\ Len(frames) = 1
    /\ frames[1].trade_date = 1
    /\ Cardinality(audit) = 1

\* compute_maco_features raised: main ended before it had features
FeaturesRaised == mpc = "raised" /\ features = << >>

\* compute_maco_features returned a frame
FeaturesReturned == prices # << >> /\ features # << >>

\* the number of bars of row i's symbol up to row i, in the sorted frame
PositionInSeries(df, i) == Cardinality(GroupRows(df, i))

\* the mean of close over the trailing min(window, position) bars of the symbol
PartialWindowMean(df, i, window) ==
    Mean(SumClose(df, Window(df, i, window)),
         Min(window, PositionInSeries(df, i)))

\* C15: for every window and every series, compute_maco_features gives each bar
\* the mean of close over exactly min(w, position) trailing bars of its symbol,
\* a defined value from the first bar on.
C15_PartialWindowSma ==
    /\ ~FeaturesRaised
    /\ FeaturesReturned =>
          \A i \in DOMAIN features :
              /\ ~IsNa(features[i].sma_fast)
              /\ ~IsNa(features[i].sma_slow)
              /\ features[i].sma_fast
                    = PartialWindowMean(sort_values(prices), i, fastWindow)
              /\ features[i].sma_slow
                    = PartialWindowMean(sort_values(prices), i, slowWindow)

\* main: generate_signals(compute_maco_features(prices)), or the exception
Engine(df, fast, slow) ==
    LET result == compute_maco_features(df, fast, slow)
    IN  IF result.exc # NoExc THEN result
        ELSE [exc |-> NoExc, df |-> generate_signals(result.df)]

\* the rows of one symbol, in the order of the frame
OfSymbol(df, symbol) == SelectSeq(df, LAMBDA row : row.symbol = symbol)

\* what the engine computed for the bars of one symbol
Computed(df, symbol) ==
    LET rows == OfSymbol(df, symbol)
    IN  [i \in DOMAIN rows |->
            [trade_date |-> rows[i].trade_date,
             sma_fast |-> rows[i].sma_fast,
             sma_slow |-> rows[i].sma_slow,
             signal |-> rows[i].signal,
             crossover |-> rows[i].crossover]]

\* frames with the same bars of one symbol, in the same order: the bars of the
\* other symbols removed, or replaced by one bar put before or after
OtherBars(df, symbol) ==
    LET own == OfSymbol(df, symbol)
        foreign == {row \in PriceRows : row.symbol # symbol}
    IN  {own} \cup {Append(own, row) : row \in foreign}
              \cup {<<row>> \o own : row \in foreign}

\* C16: the sma_fast, sma_slow, signal and crossover of the bars of a symbol are
\* the same whatever bars of other symbols the input frame holds, in whatever
\* row order.
C16_NoLeakAcrossSymbols ==
    signals # << >> =>
        \A symbol \in Groups(prices) :
            \A other \in OtherBars(prices, symbol) :
                LET there == Engine(other, fastWindow, slowWindow)
                IN  /\ there.exc = NoExc
                    /\ Computed(there.df, symbol) = Computed(signals, symbol)

\* a == b on floats
Equal(a, b) == ~IsNa(a) /\ ~IsNa(b) /\ a.sum * b.n = b.sum * a.n

\* the bars of the frame generate_signals returned that are not the first of
\* their symbol
NonFirstBars == {i \in DOMAIN signals : i > 1 /\ signals[i - 1].symbol = signals[i].symbol}

\* signal and crossover of a bar
Classified(i) == <<signals[i].signal, signals[i].crossover>>

\* C17: a non-first bar is (BUY, GOLDEN) if prev_fast <= prev_slow and
\* fast > slow, else (SELL, DEAD) if prev_fast >= prev_slow and fast < slow,
\* else (HOLD, NONE); a bar with fast = slow is (HOLD, NONE), and a bar with
\* fast # slow after a bar with prev_fast = prev_slow is a crossover.
C17_CrossoverRule ==
    \A i \in NonFirstBars :
        LET prev_fast == signals[i - 1].sma_fast
            prev_slow == signals[i - 1].sma_slow
            fast == signals[i].sma_fast
            slow == signals[i].sma_slow
            up == LessEq(prev_fast, prev_slow) /\ Less(slow, fast)
            down == LessEq(prev_slow, prev_fast) /\ Less(fast, slow)
        IN  /\ up => Classified(i) = <<"BUY", "GOLDEN">>
            /\ (~up /\ down) => Classified(i) = <<"SELL", "DEAD">>
            /\ (~up /\ ~down) => Classified(i) = <<"HOLD", "NONE">>
            /\ Equal(fast, slow) => Classified(i) = <<"HOLD", "NONE">>
            /\ (Equal(prev_fast, prev_slow) /\ (Less(fast, slow) \/ Less(slow, fast)))
                  => Classified(i) \in {<<"BUY", "GOLDEN">>, <<"SELL", "DEAD">>}

\* a bar that leaves a tie upwards is a golden cross
C17_Witness ==
    /\ mpc = "signals"
    /\ Len(signals) = 2
    /\ NonFirstBars = {2}
    /\ Equal(signals[1].sma_fast, signals[1].sma_slow)
    /\ Less(signals[2].sma_slow, signals[2].sma_fast)
    /\ Classified(2) = <<"BUY", "GOLDEN">>

\* the chronologically first bar of every symbol in the frame generate_signals
\* returned
FirstBars ==
    {i \in DOMAIN signals :
        \A j \in DOMAIN signals :
            signals[j].symbol = signals[i].symbol =>
                i <= j /\ signals[i].trade_date <= signals[j].trade_date}

\* C18: the chronologically first bar of every symbol is (HOLD, NONE), whatever
\* its sma_fast and sma_slow and whatever the last bar of the symbol sorted
\* before it holds.
C18_FirstBarHolds ==
    /\ signals # << >> => \A symbol \in Groups(signals) :
                             \E i \in FirstBars : signals[i].symbol = symbol
    /\ \A i \in FirstBars : Classified(i) = <<"HOLD", "NONE">>

\* the first bar of the second symbol has fast above slow, right after a bar of
\* the first symbol with fast not above slow
C18_Witness ==
    /\ mpc = "signals"
    /\ Len(signals) = 2
    /\ FirstBars = {1, 2}
    /\ LessEq(signals[1].sma_fast, signals[1].sma_slow)
    /\ Less(signals[2].sma_slow, signals[2].sma_fast)
    /\ Classified(2) = <<"HOLD", "NONE">>

\* main ran on the series 10, 10, 10, 12, 14, 9, 8 of one symbol, with the
\* windows 2 and 3
ScenarioRun ==
    /\ \E symbol \in SymbolSet : prices = ScenarioFrame(symbol)
    /\ fastWindow = 2
    /\ slowWindow = 3
    /\ mpc # "prices"

\* C19: for one symbol with closes 10, 10, 10, 12, 14, 9, 8, fast window 2 and
\* slow window 3, compute_maco_features followed by generate_signals yields at
\* least one (BUY, GOLDEN) bar and at least one (SELL, DEAD) bar, every SMA the
\* partial-window mean.
C19_ScenarioCrossovers ==
    ScenarioRun =>
        /\ ~FeaturesRaised
        /\ FeaturesReturned
        /\ \A i \in DOMAIN features :
              /\ features[i].sma_fast = PartialWindowMean(prices, i, fastWindow)
              /\ features[i].sma_slow = PartialWindowMean(prices, i, slowWindow)
        /\ mpc # "features" =>
              /\ \E i \in DOMAIN signals : Classified(i) = <<"BUY", "GOLDEN">>
              /\ \E i \in DOMAIN signals : Classified(i) = <<"SELL", "DEAD">>

\* the rows of write_next_day_prediction's input that belong to a symbol and
\* have its greatest trade_date
GreatestDate(df, symbol) ==
    {i \in DOMAIN df :
        /\ df[i].symbol = symbol
        /\ \A j \in DOMAIN df : df[j].symbol = symbol => df[j].trade_date <= df[i].trade_date}

\* the PredictionRow of a row of the input
PredictionOf(row) ==
    [trade_date |-> row.trade_date,
     symbol |-> row.symbol,
     predicted_signal |-> row.signal,
     predicted_direction |-> IF LessEq(row.sma_slow, row.sma_fast) THEN "UP" ELSE "DOWN",
     predicted_close |-> row.close]

\* write_next_day_prediction loaded its frame
PredictionsLoaded == mpc = "done" /\ signals # << >>

\* C20: write_next_day_prediction emits exactly one PredictionRow per symbol of
\* its input, made of the symbol's row with the greatest trade_date: its signal,
\* its close, and UP if its sma_fast >= sma_slow, else DOWN; no earlier row of
\* the symbol is emitted.
C20_OnePredictionPerSymbol ==
    PredictionsLoaded =>
        /\ \A symbol \in Groups(signals) :
              Cardinality({k \in DOMAIN preds : preds[k].symbol = symbol}) = 1
        /\ \A k \in DOMAIN preds :
              /\ preds[k].symbol \in Groups(signals)
              /\ \E i \in GreatestDate(signals, preds[k].symbol) :
                    preds[k] = PredictionOf(signals[i])

\* a symbol with two bars, handed over latest first: its later bar is the one
\* emitted
C20_Witness ==
    /\ PredictionsLoaded
    /\ Len(features) = 2
    /\ features[1].symbol = features[2].symbol
    /\ features[1].trade_date > features[2].trade_date
    /\ features[1].close # features[2].close
    /\ Len(preds) = 1
    /\ preds[1].trade_date = features[1].trade_date
    /\ preds[1].predicted_close = features[1].close
    /\ preds[1].predicted_direction = "DOWN"

\* a bare call of fetch_snapshot ended
SnapshotCalled == mode = "adapter" /\ pc \in {"returned", "raised"}

\* it returned a dict
ReturnedBar == pc = "returned" /\ snapRecord # NoBar

\* C21: fetch_snapshot returns a bar if and only if the vendor response has
\* status ok and a non-empty timestamp array, and the bar's values are then the
\* last elements of the returned arrays, whatever their number of elements.
C21_SnapshotLastBar ==
    SnapshotCalled =>
        /\ ReturnedBar <=> (vendorData.s = "ok" /\ vendorData.t # << >>)
        /\ ReturnedBar =>
              /\ snapRecord.close = Last(vendorData.c)
              /\ snapRecord.trade_date = PrevDay
              /\ snapRecord.provider = "finnhub"
              /\ snapRecord.symbol = Sym

\* one pass of the loop of fetch_yahoo_prices ended, and what session.get
\* answered was a chart payload
PayloadParsed ==
    /\ mode = "adapter"
    /\ pc = "attempted"
    /\ vendorData.status = 200
    /\ vendorData.json
    /\ vendorData.result

\* the pass returned a frame of one record per timestamp, with a null in every
\* field whose array ends before the record's index, and the array's value
\* elsewhere
OneRecordPerTimestamp ==
    /\ ypc = "returned"
    /\ lastFail = NoExc
    /\ requests = attempt + 1
    /\ Len(yres) = Len(vendorData.timestamp)
    /\ \A i \in DOMAIN yres :
          /\ yres[i].trade_date = DateOf(vendorData.timestamp[i])
          /\ i > Len(vendorData.close) => Missing(yres[i].close)
          /\ i > Len(vendorData.volume) => Missing(yres[i].volume)
          /\ (i <= Len(vendorData.close) /\ vendorData.close[i] # None)
                => yres[i].close = vendorData.close[i]
          /\ (i <= Len(vendorData.volume) /\ vendorData.volume[i] # None)
                => yres[i].volume = vendorData.volume[i]

\* the pass raised ValueError in the try body: it slept and went on to the
\* next pass, or, in the last pass, returned an empty frame
EmptyCandlesRaised ==
    /\ lastFail = Exc("ValueError", 0)
    /\ yres = EmptyFrame
    /\ \/ ypc = "running" /\ requests = attempt /\ sleeps = requests
       \/ ypc = "returned" /\ requests = max_retries

\* C22 as stated: a payload with n timestamps is parsed into exactly n records,
\* a field array shorter than n, a missing or empty one included, gives nulls
\* past its end, and no error or retry is caused.
C22_ShortArraysTolerated == PayloadParsed => OneRecordPerTimestamp

\* C22, amended: a payload with n >= 1 timestamps and a non-empty close array is
\* parsed into exactly n records, a field array shorter than n gives nulls past
\* its end, and no error or retry is caused; a payload with no timestamp, or
\* with a missing or empty close array, raises ValueError, which is retried
\* like any other failure of the pass.
C22_ShortArraysUnlessNoClose ==
    PayloadParsed =>
        IF vendorData.timestamp # << >> /\ vendorData.close # << >>
        THEN OneRecordPerTimestamp
        ELSE EmptyCandlesRaised

\* two timestamps, one close, no volume: two records, the second close null
C22_Witness ==
    /\ PayloadParsed
    /\ Len(vendorData.timestamp) = 2
    /\ vendorData.close = <<150>>
    /\ vendorData.volume = << >>
    /\ ypc = "returned"
    /\ Len(yres) = 2
    /\ yres[1].close = 150
    /\ Missing(yres[2].close)
    /\ Missing(yres[1].volume)

\* C23: in the output of generate_signals no two consecutive bars of the same
\* symbol carry the same signal other than HOLD: a BUY bar is never followed at
\* once by a BUY bar, nor a SELL bar by a SELL bar.
C23_NoRepeatedSignal ==
    \A i \in NonFirstBars :
        signals[i].signal = signals[i - 1].signal => signals[i].signal = "HOLD"

\* a BUY bar, and right after it a bar of the symbol with fast still above
\* slow, which holds
C23_Witness ==
    /\ mpc = "signals"
    /\ Len(signals) = 3
    /\ NonFirstBars = {2, 3}
    /\ signals[2].signal = "BUY"
    /\ Less(signals[3].sma_slow, signals[3].sma_fast)
    /\ signals[3].signal = "HOLD"

\* C24: a PredictionRow made from the output of generate_signals with
\* predicted_signal BUY has predicted_direction UP, and one with
\* predicted_signal SELL has predicted_direction DOWN.
C24_DirectionFollowsSignal ==
    PredictionsLoaded =>
        \A k \in DOMAIN preds :
            /\ preds[k].predicted_signal = "BUY" => preds[k].predicted_direction = "UP"
            /\ preds[k].predicted_signal = "SELL" => preds[k].predicted_direction = "DOWN"

\* a symbol whose last bar is a dead cross: its prediction is SELL and DOWN
C24_Witness ==
    /\ PredictionsLoaded
    /\ Len(preds) = 1
    /\ Len(signals) = 2
    /\ signals[2].signal = "SELL"
    /\ preds[1].predicted_signal = "SELL"
    /\ preds[1].predicted_direction = "DOWN"
    /\ preds[1].trade_date = signals[2].trade_date

====
